---- MODULE Spec2Model ----
(***************************************************************************)
(* Model of utilmind/interpolate-rgb-scale:                                *)
(*   src/adjust-color.py           the Brightness Adjuster                 *)
(*   src/interpolate-rgb-scale.py  the Scale Interpolator                  *)
(*                                                                         *)
(* Both programs compute channels with Python floats (IEEE-754 binary64)   *)
(* and convert them with int(), so the model carries binary64 arithmetic:  *)
(* a finite double is sign * m * 2^e with m a natural number of at most 53 *)
(* bits, kept as a little-endian sequence of bits because 53-bit integers  *)
(* do not fit the checker's machine integers.                              *)
(***************************************************************************)
EXTENDS Integers, Sequences, FiniteSets, TLC

(***************************************************************************)
(* Natural numbers of any size as little-endian sequences of limbs, each   *)
(* limb in 0..LimbBase-1 (<<>> is zero); the canonical form has no high    *)
(* zero limb.                                                              *)
(***************************************************************************)
Precision == 53        \* significand bits of a binary64
MaxExponent == 1024    \* finite doubles are below 2^MaxExponent
LimbBits == 15
DivFractionLimbs == 6  \* quotient limbs produced below the binary point
IntCapBits == 20       \* int() results of more bits are kept as 2^IntCapBits

Max(a, b) == IF a >= b THEN a ELSE b

Min(a, b) == IF a <= b THEN a ELSE b

Abs(n) == IF n < 0 THEN -n ELSE n

Zeros(k) == [j \in 1..k |-> 0]

RECURSIVE Pow2(_)
Pow2(k) == IF k = 0 THEN 1 ELSE 2 * Pow2(k - 1)

LimbBase == Pow2(LimbBits)

RECURSIVE NatToLimbs(_)
NatToLimbs(n) ==
    IF n = 0 THEN <<>> ELSE <<n % LimbBase>> \o NatToLimbs(n \div LimbBase)

\* for values that fit a machine integer
RECURSIVE LimbsToNat(_)
LimbsToNat(a) == IF a = <<>> THEN 0 ELSE Head(a) + LimbBase * LimbsToNat(Tail(a))

RECURSIVE Trim(_)
Trim(a) ==
    IF a = <<>> THEN <<>>
    ELSE IF a[Len(a)] = 0 THEN Trim(SubSeq(a, 1, Len(a) - 1))
    ELSE a

LimbAt(a, j) == IF j >= 1 /\ j <= Len(a) THEN a[j] ELSE 0

Rest(a) == IF a = <<>> THEN <<>> ELSE Tail(a)

RECURSIVE LAddC(_, _, _)
LAddC(a, b, c) ==
    IF a = <<>> /\ b = <<>> THEN (IF c = 0 THEN <<>> ELSE <<c>>)
    ELSE LET t == LimbAt(a, 1) + LimbAt(b, 1) + c
         IN  <<t % LimbBase>> \o LAddC(Rest(a), Rest(b), t \div LimbBase)

LAdd(a, b) == LAddC(a, b, 0)

\* a - b - c for a >= b + c
RECURSIVE LSubC(_, _, _)
LSubC(a, b, c) ==
    IF a = <<>> THEN <<>>
    ELSE LET t == Head(a) - LimbAt(b, 1) - c
         IN  <<t % LimbBase>> \o LSubC(Tail(a), Rest(b), IF t < 0 THEN 1 ELSE 0)

LSub(a, b) == Trim(LSubC(a, b, 0))

\* a < b, for canonical a and b of the same length
RECURSIVE LLessFrom(_, _, _)
LLessFrom(a, b, j) ==
    IF j = 0 THEN FALSE
    ELSE IF a[j] # b[j] THEN a[j] < b[j]
    ELSE LLessFrom(a, b, j - 1)

LLess(a, b) == IF Len(a) # Len(b) THEN Len(a) < Len(b) ELSE LLessFrom(a, b, Len(a))

\* a * n + c for a natural n of at most LimbBits bits
RECURSIVE LMulSmallC(_, _, _)
LMulSmallC(a, n, c) ==
    IF a = <<>> THEN NatToLimbs(c)
    ELSE LET t == Head(a) * n + c
         IN  <<t % LimbBase>> \o LMulSmallC(Tail(a), n, t \div LimbBase)

LMulSmall(a, n) == Trim(LMulSmallC(a, n, 0))

\* quotient q and remainder r of the limbs j..1 of a, after remainder rem,
\* by a natural d of at most LimbBits bits
RECURSIVE LDivFrom(_, _, _, _)
LDivFrom(a, d, j, rem) ==
    IF j = 0 THEN [q |-> <<>>, r |-> rem]
    ELSE LET cur == rem * LimbBase + a[j]
             low == LDivFrom(a, d, j - 1, cur % d)
         IN  [q |-> Append(low.q, cur \div d), r |-> low.r]

LDivSmall(a, d) == LET t == LDivFrom(a, d, Len(a), 0) IN [q |-> Trim(t.q), r |-> t.r]

SmallBitLength(n) == CHOOSE k \in 0..31 : (k = 0 \/ Pow2(k - 1) <= n) /\ (k = 31 \/ n < Pow2(k))

BitLength(a) == IF a = <<>> THEN 0 ELSE LimbBits * (Len(a) - 1) + SmallBitLength(a[Len(a)])

\* bit j of a, bit 0 the least significant
Bit(a, j) == (LimbAt(a, (j \div LimbBits) + 1) \div Pow2(j % LimbBits)) % 2

\* a * 2^k
ShiftLeft(a, k) ==
    IF a = <<>> THEN <<>>
    ELSE Zeros(k \div LimbBits) \o LMulSmall(a, Pow2(k % LimbBits))

\* a \div 2^k
ShiftRight(a, k) ==
    LET drop == k \div LimbBits
    IN  IF drop >= Len(a) THEN <<>>
        ELSE LDivSmall(SubSeq(a, drop + 1, Len(a)), Pow2(k % LimbBits)).q

\* a % 2^k # 0
LowBitsSet(a, k) ==
    \/ \E j \in 1..Min(Len(a), k \div LimbBits) : a[j] # 0
    \/ LimbAt(a, (k \div LimbBits) + 1) % Pow2(k % LimbBits) # 0

(***************************************************************************)
(* Python floats.  cls is "fin", "inf" or "nan"; a finite double is        *)
(* (-1)^neg * m * 2^e with m canonical, and m has exactly Precision bits   *)
(* unless the value is zero.  Every operation below returns the exact      *)
(* result rounded to nearest, ties to even, as binary64 arithmetic does.   *)
(* Results below the normal range do not arise from the inputs used here   *)
(* and gradual underflow is not modelled.                                  *)
(***************************************************************************)
FZero(neg) == [cls |-> "fin", neg |-> neg, m |-> <<>>, e |-> 0]

FInf(neg) == [cls |-> "inf", neg |-> neg, m |-> <<>>, e |-> 0]

FNan == [cls |-> "nan", neg |-> FALSE, m |-> <<>>, e |-> 0]

\* a double from a significand of exactly Precision bits; overflow gives inf
MakeDouble(neg, m, e) ==
    IF e + Precision > MaxExponent THEN FInf(neg)
    ELSE [cls |-> "fin", neg |-> neg, m |-> m, e |-> e]

\* rounding up may carry into one more bit
Renormalize(neg, r, e) ==
    IF BitLength(r) > Precision THEN MakeDouble(neg, ShiftRight(r, 1), e + 1)
    ELSE MakeDouble(neg, r, e)

\* to nearest, ties to even: the first dropped bit is set and either a
\* lower one is, or the last kept bit is
RoundsUp(m, d, kept, sticky) ==
    Bit(m, d - 1) = 1 /\ (sticky \/ LowBitsSet(m, d - 1) \/ Bit(kept, 0) = 1)

\* drop the d low bits of m
RoundDropping(neg, m, e, sticky, d, kept) ==
    Renormalize(neg, IF RoundsUp(m, d, kept, sticky) THEN LAdd(kept, <<1>>) ELSE kept, e + d)

RoundBits(neg, m, e, sticky, L) ==
    IF m = <<>> THEN FZero(neg)
    ELSE IF L <= Precision
    THEN (IF e + L > MaxExponent THEN FInf(neg)
          ELSE MakeDouble(neg, ShiftLeft(m, Precision - L), e - (Precision - L)))
    ELSE RoundDropping(neg, m, e, sticky, L - Precision, ShiftRight(m, L - Precision))

\* round the exact value (-1)^neg * (m + s) * 2^e, 0 <= s < 1, s > 0 iff
\* sticky (a sticky m has more than Precision bits)
RoundToDouble(neg, m, e, sticky) == RoundBits(neg, m, e, sticky, BitLength(m))

\* float(n) for a machine-size integer n: exact
IntToDouble(n) == RoundToDouble(n < 0, NatToLimbs(Abs(n)), 0, FALSE)

RoundQuotient(neg, t) ==
    RoundToDouble(neg, Trim(t.q), -(LimbBits * DivFractionLimbs), t.r # 0)

DivideLimbs(a, d) == LDivFrom(Zeros(DivFractionLimbs) \o a, d, DivFractionLimbs + Len(a), 0)

\* n / d for Python ints (true division), 0 < |d| < LimbBase: correctly
\* rounded.  The same rounding gives the value of a decimal literal such as
\* 0.33 = 33/100.
IntTrueDiv(n, d) ==
    RoundQuotient((n < 0) # (d < 0), DivideLimbs(NatToLimbs(Abs(n)), Abs(d)))

SumNeg(xneg, xm, yneg, ym) ==
    IF xneg = yneg THEN xneg
    ELSE IF xm = ym THEN FALSE
    ELSE IF LLess(xm, ym) THEN yneg ELSE xneg

SumMagnitude(xneg, xm, yneg, ym) ==
    IF xneg = yneg THEN LAdd(xm, ym)
    ELSE IF xm = ym THEN <<>>
    ELSE IF LLess(xm, ym) THEN LSub(ym, xm) ELSE LSub(xm, ym)

AddAligned(xneg, xm, yneg, ym, e) ==
    RoundToDouble(SumNeg(xneg, xm, yneg, ym), SumMagnitude(xneg, xm, yneg, ym), e, FALSE)

AddFinite(x, y, e) ==
    AddAligned(x.neg, ShiftLeft(x.m, x.e - e), y.neg, ShiftLeft(y.m, y.e - e), e)

\* x + y
FAdd(x, y) ==
    IF x.cls = "nan" \/ y.cls = "nan" THEN FNan
    ELSE IF x.cls = "inf" /\ y.cls = "inf"
    THEN (IF x.neg = y.neg THEN x ELSE FNan)
    ELSE IF x.cls = "inf" THEN x
    ELSE IF y.cls = "inf" THEN y
    ELSE IF x.m = <<>> /\ y.m = <<>> THEN FZero(x.neg /\ y.neg)
    ELSE IF x.m = <<>> THEN y
    ELSE IF y.m = <<>> THEN x
    ELSE IF x.e - y.e > 2 * Precision THEN x
    ELSE IF y.e - x.e > 2 * Precision THEN y
    ELSE AddFinite(x, y, Min(x.e, y.e))

FNeg(x) == IF x.cls = "nan" THEN x ELSE [x EXCEPT !.neg = ~x.neg]

\* x - y
FSub(x, y) == FAdd(x, FNeg(y))

\* n * x for a Python int n, |n| < LimbBase (float(n) is then exact)
IntTimesDouble(n, x) ==
    IF x.cls = "nan" THEN FNan
    ELSE IF x.cls = "inf" THEN (IF n = 0 THEN FNan ELSE FInf(x.neg # (n < 0)))
    ELSE RoundToDouble(x.neg # (n < 0), LMulSmall(x.m, Abs(n)), x.e, FALSE)

TruncatedMagnitude(m, e, L) ==
    IF m = <<>> THEN 0
    ELSE IF L + e <= 0 THEN 0
    ELSE IF L + e > IntCapBits THEN Pow2(IntCapBits)
    ELSE IF e >= 0 THEN LimbsToNat(ShiftLeft(m, e))
    ELSE LimbsToNat(ShiftRight(m, -e))

WithSign(neg, mag) == IF neg THEN -mag ELSE mag

\* int(x) for a finite x: truncation toward zero.  Python ints are
\* unbounded; magnitudes of 2^IntCapBits or more are returned as 2^IntCapBits.
DoubleToInt(x) == WithSign(x.neg, TruncatedMagnitude(x.m, x.e, BitLength(x.m)))

(***************************************************************************)
(* src/adjust-color.py                                                     *)
(*                                                                         *)
(* A color is [shape |-> "int", v |-> n] or [shape |-> "tuple", v |-> seq] *)
(* (Python tells them apart with isinstance).  A call returns              *)
(* [raised |-> "none", val |-> value] or [raised |-> exception name].      *)
(***************************************************************************)
MaxChannel == 255

Returned(val) == [raised |-> "none", val |-> val]

Raised(exc) == [raised |-> exc, val |-> 0]

\* int(x) as Python evaluates it: infinities and NaN raise
PyInt(x) ==
    IF x.cls = "inf" THEN Raised("OverflowError")
    ELSE IF x.cls = "nan" THEN Raised("ValueError")
    ELSE Returned(DoubleToInt(x))

\* max(0, min(255, t)) around a t that did not raise
ClampReturned(t) ==
    IF t.raised # "none" THEN t
    ELSE Returned(Max(0, Min(MaxChannel, t.val)))

\* max(0, min(255, int(value * (1 + intensity_factor))))
adjust_channel(value, intensity_factor) ==
    ClampReturned(PyInt(IntTimesDouble(value, FAdd(IntToDouble(1), intensity_factor))))

\* a tuple built element by element: the first raise ends it
ConsReturned(h, t) ==
    IF h.raised # "none" THEN h
    ELSE IF t.raised # "none" THEN t
    ELSE Returned(<<h.val>> \o t.val)

\* the generator of line 50: channels left to right
RECURSIVE AdjustChannels(_, _)
AdjustChannels(channels, intensity_factor) ==
    IF channels = <<>> THEN Returned(<<>>)
    ELSE ConsReturned(adjust_channel(Head(channels), intensity_factor),
                      AdjustChannels(Tail(channels), intensity_factor))

Shaped(shape, r) ==
    IF r.raised # "none" THEN r
    ELSE Returned([shape |-> shape, v |-> r.val])

adjust_color(color, intensity_factor) ==
    IF color.shape = "int"
    THEN Shaped("int", adjust_channel(color.v, intensity_factor))
    ELSE Shaped("tuple", AdjustChannels(color.v, intensity_factor))

(***************************************************************************)
(* Strings are sequences of one-character strings.                         *)
(***************************************************************************)
DigitChars == <<"0", "1", "2", "3", "4", "5", "6", "7", "8", "9",
                "a", "b", "c", "d", "e", "f">>

IsDigit(c, base) == \E d \in 1..base : DigitChars[d] = c

DigitValue(c) == (CHOOSE d \in 1..16 : DigitChars[d] = c) - 1

\* the value of a non-empty run of digits of the base; capped well above
\* MaxChannel (Python ints are unbounded, only the range test reads them)
RECURSIVE DigitsValue(_, _, _)
DigitsValue(s, base, acc) ==
    IF s = <<>> THEN acc
    ELSE DigitsValue(Tail(s), base, Min(Pow2(IntCapBits), acc * base + DigitValue(Head(s))))

AllDigits(s, base) == s # <<>> /\ \A j \in 1..Len(s) : IsDigit(s[j], base)

\* int(s), base 10: an optional sign, then decimal digits (leading zeros
\* allowed).  Whitespace, "_" and "+" are not in the alphabet drawn from.
PyIntBase10(s) ==
    LET neg == s # <<>> /\ Head(s) = "-"
        body == IF neg THEN Tail(s) ELSE s
    IN  IF AllDigits(body, 10)
        THEN Returned(IF neg THEN -DigitsValue(body, 10, 0) ELSE DigitsValue(body, 10, 0))
        ELSE Raised("ValueError")

\* int(s, 0): an optional sign, then a literal in Python's own syntax:
\* 0x, 0o or 0b and digits of that base, or a decimal literal, which has no
\* leading zero unless it is all zeros.
PyIntBase0(s) ==
    LET neg == s # <<>> /\ Head(s) = "-"
        body == IF neg THEN Tail(s) ELSE s
        prefixed == Len(body) >= 2 /\ body[1] = "0" /\ body[2] \in {"x", "o", "b"}
        base == IF ~prefixed THEN 10
                ELSE IF body[2] = "x" THEN 16
                ELSE IF body[2] = "o" THEN 8 ELSE 2
        digits == IF prefixed THEN SubSeq(body, 3, Len(body)) ELSE body
        ok == /\ AllDigits(digits, base)
              /\ prefixed \/ Len(digits) = 1 \/ digits[1] # "0"
                          \/ \A j \in 1..Len(digits) : digits[j] = "0"
    IN  IF ok
        THEN Returned(IF neg THEN -DigitsValue(digits, base, 0) ELSE DigitsValue(digits, base, 0))
        ELSE Raised("ValueError")

\* s.split(","): the pieces between commas, empty pieces included
RECURSIVE Split(_, _)
Split(s, cur) ==
    IF s = <<>> THEN <<cur>>
    ELSE IF Head(s) = "," THEN <<cur>> \o Split(Tail(s), <<>>)
    ELSE Split(Tail(s), Append(cur, Head(s)))

\* tuple(map(int, tokens)): raises at the first token int() rejects
RECURSIVE MapInt(_)
MapInt(tokens) ==
    IF tokens = <<>> THEN Returned(<<>>)
    ELSE ConsReturned(PyIntBase10(Head(tokens)), MapInt(Tail(tokens)))

InByteRange(c) == 0 <= c /\ c <= MaxChannel

\* lines 65-66 and 71
CheckedTuple(t) ==
    IF t.raised # "none" THEN t
    ELSE IF Len(t.val) # 3 \/ ~(\A j \in 1..Len(t.val) : InByteRange(t.val[j]))
    THEN Raised("ValueError")
    ELSE Returned([shape |-> "tuple", v |-> t.val])

\* lines 69-71
CheckedChannel(c) ==
    IF c.raised # "none" THEN c
    ELSE IF ~InByteRange(c.val) THEN Raised("ValueError")
    ELSE Returned([shape |-> "int", v |-> c.val])

parse_color(color_str) ==
    IF \E j \in 1..Len(color_str) : color_str[j] = ","
    THEN CheckedTuple(MapInt(Split(color_str, <<>>)))
    ELSE CheckedChannel(PyIntBase0(color_str))

\* str(value) for a natural number
RECURSIVE DecStr(_)
DecStr(n) ==
    IF n < 10 THEN <<DigitChars[n + 1]>>
    ELSE Append(DecStr(n \div 10), DigitChars[(n % 10) + 1])

UpperDigitChars == <<"0", "1", "2", "3", "4", "5", "6", "7", "8", "9",
                     "A", "B", "C", "D", "E", "F">>

RECURSIVE HexStr(_)
HexStr(n) ==
    IF n < 16 THEN <<UpperDigitChars[n + 1]>>
    ELSE Append(HexStr(n \div 16), UpperDigitChars[(n % 16) + 1])

\* f"{value} (0x{value:02X})" for a value in 0..255
format_color(value) ==
    LET hex == HexStr(value)
    IN  DecStr(value) \o <<" ", "(", "0", "x">>
        \o (IF Len(hex) < 2 THEN <<"0">> \o hex ELSE hex) \o <<")">>

(***************************************************************************)
(* src/interpolate-rgb-scale.py.  Its colors are plain tuples.             *)
(***************************************************************************)
\* a slip: the quotient is truncated before start is added
InterpolateChannelTruncatedFirst(start, end, start_pos, end_pos, pos) ==
    start + DoubleToInt(IntTrueDiv((end - start) * (pos - start_pos), end_pos - start_pos))

\* a slip: pos is not taken relative to start_pos
InterpolateChannelNoOffset(start, end, start_pos, end_pos, pos) ==
    DoubleToInt(FAdd(IntToDouble(start),
                     IntTrueDiv((end - start) * pos, end_pos - start_pos)))

\* int(start + (end - start) * (pos - start_pos) / (end_pos - start_pos))
InterpolateChannel(start, end, start_pos, end_pos, pos) ==
    DoubleToInt(FAdd(IntToDouble(start),
                     IntTrueDiv((end - start) * (pos - start_pos), end_pos - start_pos)))

interpolate_color(start_color, end_color, start_pos, end_pos, pos) ==
    LET n == Min(Len(start_color), Len(end_color))
    IN  IF n > 0 /\ end_pos = start_pos THEN Raised("ZeroDivisionError")
        ELSE Returned([j \in 1..n |->
                 InterpolateChannel(start_color[j], end_color[j], start_pos, end_pos, pos)])

\* the literal 0.33 of line 40
DefaultReductionFactor == IntTrueDiv(33, 100)

\* a slip: the factor is added as adjust_channel does
DarkenChannelAdding(channel, reduction_factor) ==
    PyInt(IntTimesDouble(channel, FAdd(IntToDouble(1), reduction_factor)))

\* int(channel * (1 - reduction_factor))
DarkenChannel(channel, reduction_factor) ==
    PyInt(IntTimesDouble(channel, FSub(IntToDouble(1), reduction_factor)))

RECURSIVE DarkenChannels(_, _)
DarkenChannels(channels, reduction_factor) ==
    IF channels = <<>> THEN Returned(<<>>)
    ELSE ConsReturned(DarkenChannel(Head(channels), reduction_factor),
                      DarkenChannels(Tail(channels), reduction_factor))

darken_color(color, reduction_factor) == DarkenChannels(color, reduction_factor)

\* lines 64-70
KeyColors ==
    (1 :> <<176, 238, 176>>) @@ (3 :> <<255, 255, 120>>) @@
    (7 :> <<248, 152, 150>>) @@ (9 :> <<124, 76, 75>>)

FirstPoint == 1

PointsEnd == 10

\* a slip: the last point is left out
ScalePointsShort == FirstPoint..(PointsEnd - 2)

\* line 78: range(1, 10)
scale_points == FirstPoint..(PointsEnd - 1)

\* a slip: the average is rounded up
AverageRoundedUp(yellow, red) == [j \in 1..3 |-> (yellow[j] + red[j] + 1) \div 2]

\* line 75: tuple((yellow[i] + red[i]) // 2 for i in range(3))
Average(yellow, red) == [j \in 1..3 |-> (yellow[j] + red[j]) \div 2]

\* a slip: the lowest key below, not the nearest
SetMaxLowest(S) == CHOOSE k \in S : \A other \in S : k <= other

SetMax(S) == CHOOSE k \in S : \A other \in S : other <= k

SetMin(S) == CHOOSE k \in S : \A other \in S : k <= other

\* ' '.join(...) and ", ".join(...)
RECURSIVE Join(_, _)
Join(sep, parts) ==
    IF parts = <<>> THEN <<>>
    ELSE IF Len(parts) = 1 THEN parts[1]
    ELSE parts[1] \o sep \o Join(sep, Tail(parts))

\* str of a Python int
IntStr(n) == IF n < 0 THEN <<"-">> \o DecStr(-n) ELSE DecStr(n)

\* line 101
RuleLine(point, bg, border) ==
    <<".airport.i">> \o IntStr(point) \o <<" { background-color: rgb(">>
    \o Join(<<" ">>, [j \in 1..Len(bg) |-> IntStr(bg[j])])
    \o <<"); border-color: rgb(">>
    \o Join(<<" ">>, [j \in 1..Len(border) |-> IntStr(border[j])])
    \o <<"); }">>

(***************************************************************************)
(* Inputs.  A float argument is written as a text: a decimal num/den, a    *)
(* power of two, "inf", "nan" or a text float() rejects.                   *)
(***************************************************************************)
MaxTenths == 12    \* decimal factors run over -MaxTenths/10 .. MaxTenths/10
MaxStrLen == 4     \* color arguments: every string up to this length ...
MaxTokens == 4     \* ... and comma-joined lists of up to this many tokens
MaxPos == 10       \* scale positions of direct interpolate_color calls
BigExponent == MaxExponent - 1   \* 2.0 ** 1023, the largest power of two

Dec(num, den) == [kind |-> "dec", num |-> num, den |-> den, neg |-> num < 0]

Pow2Text(neg) == [kind |-> "pow2", num |-> 0, den |-> 1, neg |-> neg]

Special(kind) == [kind |-> kind, num |-> 0, den |-> 1, neg |-> FALSE]

\* float(text); texts of kind "bad" raise ValueError
PyFloat(text) ==
    IF text.kind = "dec" THEN Returned(IntTrueDiv(text.num, text.den))
    ELSE IF text.kind = "pow2" THEN Returned(RoundToDouble(text.neg, <<1>>, BigExponent, FALSE))
    ELSE IF text.kind = "inf" THEN Returned(FInf(text.neg))
    ELSE IF text.kind = "nan" THEN Returned(FNan)
    ELSE Raised("ValueError")

DecimalTexts ==
    {Dec(n, 10) : n \in (-MaxTenths)..MaxTenths} \cup {Dec(-33, 100), Dec(33, 100), Dec(155, 100)}

\* finite floats handed to adjust_color
FiniteTexts == DecimalTexts \cup {Pow2Text(FALSE), Pow2Text(TRUE)}

\* intensity arguments of the command line
IntensityTexts ==
    {Dec(-33, 100), Dec(2, 10), Pow2Text(FALSE), Special("nan"), Special("bad")}

\* reduction factors handed to darken_color
ReductionTexts == {Dec(n, 10) : n \in 0..10} \cup {Dec(33, 100)}

Alphabet == {"0", "1", "2", "5", "x", "b", ",", "-"}

Tokens == {<<>>, <<"0">>, <<"1", "2", "0">>, <<"2", "5", "5">>, <<"2", "5", "6">>, <<"-", "1">>}

ExampleStrings ==
    { <<"2", "5", "5", ",", "2", "5", "5", ",", "1", "2", "0">>,
      <<"1", "0", "0">>, <<"0", "x", "6", "4">>, <<"2", "5", "6">>,
      <<"1", ",", "2", ",", "3", ",", "4">>, <<"-", "1">>,
      <<"0", "x", "f", "f">>, <<"0", "o", "1", "7">>, <<"0", "1", "0">> }

ColorStrings ==
    UNION {[1..k -> Alphabet] : k \in 0..MaxStrLen}
    \cup UNION {{Join(<<",">>, t) : t \in [1..k -> Tokens]} : k \in 2..MaxTokens}
    \cup ExampleStrings

Gray(c) == <<c, c, c>>

SampleColors ==
    {KeyColors[k] : k \in DOMAIN KeyColors}
    \cup {Gray(0), Gray(100), Gray(MaxChannel), <<251, 203, 135>>, <<-10, 300, 7>>}

ColorArguments ==
    {[shape |-> "int", v |-> c] : c \in 0..MaxChannel}
    \cup {[shape |-> "tuple", v |-> t] : t \in {<<255, 255, 120>>, <<0, 100, 200>>, <<1, 10, 116>>}}

(***************************************************************************)
(* State.                                                                  *)
(***************************************************************************)
VARIABLES
    prog,           \* what runs: a script or a direct call of a function
    pc,             \* where it is
    input,          \* its arguments
    intensity,      \* adjust-color.py: args.intensity
    color,          \* adjust-color.py: color
    adjusted_color, \* adjust-color.py: adjusted_color
    stdout,         \* the lines printed so far
    status,         \* exit status, "running" before the exit
    raised,         \* the exception that ended the run, "none" otherwise
    colors,         \* interpolate-rgb-scale.py: colors
    i,              \* interpolate-rgb-scale.py: i, 0 while unbound
    bounds,         \* interpolate-rgb-scale.py: <<lower_bound, upper_bound>>
    result,         \* interpolate-rgb-scale.py: result
    printed,        \* interpolate-rgb-scale.py: records the print loop consumed
    ret             \* direct calls: what the call returned

vars == <<prog, pc, input, intensity, color, adjusted_color, stdout, status,
          raised, colors, i, bounds, result, printed, ret>>

None == [none |-> TRUE]

ErrorMessage ==
    "Error: Invalid color format. Use 'R,G,B', a single value between 0 and 255, or a hex value (e.g., '0x64')."

Blank ==
    /\ intensity = None
    /\ color = None
    /\ adjusted_color = None
    /\ stdout = <<>>
    /\ status = "running"
    /\ raised = "none"
    /\ colors = None
    /\ i = 0
    /\ bounds = <<0, 0>>
    /\ result = <<>>
    /\ printed = 0
    /\ ret = None

InitAdjustMain ==
    /\ prog = "adjust-color.py"
    /\ pc = "parse_args"
    /\ \E c \in ColorStrings, t \in IntensityTexts : input = [color |-> c, intensity |-> t]
    /\ Blank

InitScaleMain ==
    /\ prog = "interpolate-rgb-scale.py"
    /\ pc = "derive"
    /\ input = None
    /\ Blank

InitAdjustCall ==
    /\ prog = "adjust_color"
    /\ pc = "call"
    /\ \E c \in ColorArguments, t \in FiniteTexts : input = [color |-> c, factor |-> t]
    /\ Blank

InitInterpolateCall ==
    /\ prog = "interpolate_color"
    /\ pc = "call"
    /\ \E sc \in SampleColors, ec \in SampleColors, sp \in 0..MaxPos, ep \in 0..MaxPos, p \in 0..MaxPos :
          /\ sp <= p /\ p <= ep
          /\ input = [start_color |-> sc, end_color |-> ec, start_pos |-> sp, end_pos |-> ep, pos |-> p]
    /\ Blank

InitDarkenCall ==
    /\ prog = "darken_color"
    /\ pc = "call"
    /\ \E c \in SampleColors \cup {Gray(c) : c \in 0..MaxChannel}, t \in ReductionTexts :
          input = [color |-> c, factor |-> t]
    /\ Blank

Init ==
    \/ InitAdjustMain
    \/ InitScaleMain
    \/ InitAdjustCall
    \/ InitInterpolateCall
    \/ InitDarkenCall

(***************************************************************************)
(* adjust-color.py, main().  The color argument is the string argparse     *)
(* hands to parse_color.                                                   *)
(***************************************************************************)
\* lines 86-98: type=float rejects the intensity, argparse exits with 2
ParseArgs ==
    /\ prog = "adjust-color.py" /\ pc = "parse_args"
    /\ LET f == PyFloat(input.intensity)
       IN  IF f.raised # "none"
           THEN /\ status' = 2
                /\ pc' = "exit"
                /\ UNCHANGED intensity
           ELSE /\ intensity' = f.val
                /\ pc' = "parse_color"
                /\ UNCHANGED status
    /\ UNCHANGED <<prog, input, color, adjusted_color, stdout, raised, colors,
                   i, bounds, result, printed, ret>>

\* lines 100-105
ParseColor ==
    /\ prog = "adjust-color.py" /\ pc = "parse_color"
    /\ LET c == parse_color(input.color)
       IN  IF c.raised = "ValueError"
           THEN /\ stdout' = Append(stdout, <<ErrorMessage>>)
                /\ status' = 0
                /\ pc' = "exit"
                /\ UNCHANGED color
           ELSE /\ color' = c.val
                /\ pc' = "adjust"
                /\ UNCHANGED <<stdout, status>>
    /\ UNCHANGED <<prog, input, intensity, adjusted_color, raised, colors,
                   i, bounds, result, printed, ret>>

AdjustOutcome(a) ==
    IF a.raised # "none"
    THEN /\ raised' = a.raised
         /\ status' = 1
         /\ pc' = "exit"
         /\ UNCHANGED adjusted_color
    ELSE /\ adjusted_color' = a.val
         /\ pc' = "output"
         /\ UNCHANGED <<raised, status>>

\* lines 107-108: an exception here is not caught, the interpreter exits with 1
AdjustColor ==
    /\ prog = "adjust-color.py" /\ pc = "adjust"
    /\ AdjustOutcome(adjust_color(color, intensity))
    /\ UNCHANGED <<prog, input, intensity, color, stdout, colors,
                   i, bounds, result, printed, ret>>

FormatTriple(c) == Join(<<",", " ">>, [j \in 1..Len(c) |-> format_color(c[j])])

\* lines 110-118
Output ==
    /\ prog = "adjust-color.py" /\ pc = "output"
    /\ stdout' =
          IF color.shape = "int"
          THEN stdout \o << <<"Original channel: ">> \o format_color(color.v),
                            <<"Adjusted channel: ">> \o format_color(adjusted_color.v) >>
          ELSE stdout \o << <<"Original color: rgb(">> \o FormatTriple(color.v) \o <<")">>,
                            <<"Adjusted color: rgb(">> \o FormatTriple(adjusted_color.v) \o <<")">> >>
    /\ status' = 0
    /\ pc' = "exit"
    /\ UNCHANGED <<prog, input, intensity, color, adjusted_color, raised, colors,
                   i, bounds, result, printed, ret>>

(***************************************************************************)
(* interpolate-rgb-scale.py, the module body.                              *)
(***************************************************************************)
\* lines 64-79
DeriveOrange ==
    /\ prog = "interpolate-rgb-scale.py" /\ pc = "derive"
    /\ colors' = (5 :> Average(KeyColors[3], KeyColors[7])) @@ KeyColors
    /\ pc' = "fill"
    /\ UNCHANGED <<prog, input, intensity, color, adjusted_color, stdout, status,
                   raised, i, bounds, result, printed, ret>>

NextPoint == IF i = 0 THEN FirstPoint ELSE i + 1

\* lines 93-95
Record(point, bg_color) ==
    <<point, bg_color, darken_color(bg_color, DefaultReductionFactor).val>>

\* lines 89-95
Interpolated(point, lower_bound, upper_bound) ==
    /\ bounds' = <<lower_bound, upper_bound>>
    /\ result' = Append(result,
           Record(point, interpolate_color(colors[lower_bound], colors[upper_bound],
                                           lower_bound, upper_bound, point).val))
    /\ UNCHANGED <<raised, status, pc>>

\* lines 87-88: max() or min() of nothing raises ValueError
NoBound(below) ==
    /\ raised' = "ValueError"
    /\ status' = 1
    /\ pc' = "exit"
    /\ bounds' = IF below = {} THEN bounds ELSE <<SetMax(below), bounds[2]>>
    /\ UNCHANGED result

\* lines 82-95
Fill(point, below, above) ==
    /\ i' = point
    /\ IF point \in DOMAIN colors
       THEN /\ result' = Append(result, Record(point, colors[point]))
            /\ UNCHANGED <<bounds, raised, status, pc>>
       ELSE IF below = {} \/ above = {} THEN NoBound(below)
       ELSE Interpolated(point, SetMax(below), SetMin(above))

\* lines 81-95, one iteration
FillPoint ==
    /\ prog = "interpolate-rgb-scale.py" /\ pc = "fill"
    /\ NextPoint \in scale_points
    /\ Fill(NextPoint, {k \in DOMAIN colors : k < NextPoint}, {k \in DOMAIN colors : k > NextPoint})
    /\ UNCHANGED <<prog, input, intensity, color, adjusted_color, stdout, colors,
                   printed, ret>>

\* the for loop of line 81 is exhausted
FillDone ==
    /\ prog = "interpolate-rgb-scale.py" /\ pc = "fill"
    /\ NextPoint \notin scale_points
    /\ pc' = "print"
    /\ UNCHANGED <<prog, input, intensity, color, adjusted_color, stdout, status,
                   raised, colors, i, bounds, result, printed, ret>>

\* lines 98-101, one iteration
PrintRule ==
    /\ prog = "interpolate-rgb-scale.py" /\ pc = "print"
    /\ printed < Len(result)
    /\ LET rec == result[printed + 1]
       IN  stdout' = Append(stdout, RuleLine(rec[1], rec[2], rec[3]))
    /\ printed' = printed + 1
    /\ UNCHANGED <<prog, pc, input, intensity, color, adjusted_color, status,
                   raised, colors, i, bounds, result, ret>>

\* the for loop of line 98 is exhausted, the script ends
PrintDone ==
    /\ prog = "interpolate-rgb-scale.py" /\ pc = "print"
    /\ printed = Len(result)
    /\ status' = 0
    /\ pc' = "exit"
    /\ UNCHANGED <<prog, input, intensity, color, adjusted_color, stdout,
                   raised, colors, i, bounds, result, printed, ret>>

(***************************************************************************)
(* Direct calls of the functions.                                          *)
(***************************************************************************)
CallAdjustColor ==
    /\ prog = "adjust_color" /\ pc = "call"
    /\ ret' = adjust_color(input.color, PyFloat(input.factor).val)
    /\ pc' = "returned"
    /\ UNCHANGED <<prog, input, intensity, color, adjusted_color, stdout, status,
                   raised, colors, i, bounds, result, printed>>

CallInterpolateColor ==
    /\ prog = "interpolate_color" /\ pc = "call"
    /\ ret' = interpolate_color(input.start_color, input.end_color,
                                input.start_pos, input.end_pos, input.pos)
    /\ pc' = "returned"
    /\ UNCHANGED <<prog, input, intensity, color, adjusted_color, stdout, status,
                   raised, colors, i, bounds, result, printed>>

CallDarkenColor ==
    /\ prog = "darken_color" /\ pc = "call"
    /\ ret' = darken_color(input.color, PyFloat(input.factor).val)
    /\ pc' = "returned"
    /\ UNCHANGED <<prog, input, intensity, color, adjusted_color, stdout, status,
                   raised, colors, i, bounds, result, printed>>

Next ==
    \/ ParseArgs
    \/ ParseColor
    \/ AdjustColor
    \/ Output
    \/ DeriveOrange
    \/ FillPoint
    \/ FillDone
    \/ PrintRule
    \/ PrintDone
    \/ CallAdjustColor
    \/ CallInterpolateColor
    \/ CallDarkenColor

Spec == Init /\ [][Next]_vars

(***************************************************************************)
(* Exact arithmetic the properties are stated in.                          *)
(***************************************************************************)
\* a / b with the fractional part discarded, b > 0
TruncDiv(a, b) == IF a >= 0 THEN a \div b ELSE -((-a) \div b)

Clamp(t) == IF t < 0 THEN 0 ELSE IF t > MaxChannel THEN MaxChannel ELSE t

\* v * (1 + f) with the fractional part discarded, for a channel v >= 0 and
\* the factor f a text denotes (beyond +-2^IntCapBits only the sign is kept)
ExactScaled(v, text) ==
    IF text.kind = "dec" THEN TruncDiv(v * (text.den + text.num), text.den)
    ELSE IF v = 0 THEN 0
    ELSE IF text.neg THEN -Pow2(IntCapBits) ELSE Pow2(IntCapBits)

FactorAtMostMinusOne(text) ==
    IF text.kind = "dec" THEN text.num <= -text.den ELSE text.neg

\* v * (1 + f) >= 255
ScaledSaturates(v, text) ==
    IF text.kind = "dec" THEN v * (text.den + text.num) >= MaxChannel * text.den
    ELSE ~text.neg /\ v >= 1

Channels(c) == IF c.shape = "int" THEN <<c.v>> ELSE c.v

AdjustReturned == prog = "adjust_color" /\ pc = "returned"

\* C1: for every channel v in 0..255 and every finite factor f,
\* adjust_channel(v, f) is clamp(T, 0, 255), T being v * (1 + f) with its
\* fractional part discarded; adjust_channel(200, -0.33) = 134 and
\* adjust_channel(v, 0) = v.
C1_AdjustChannelIsClampedTruncation ==
    (AdjustReturned /\ input.color.shape = "int") =>
        /\ ret.raised = "none"
        /\ ret.val.v = Clamp(ExactScaled(input.color.v, input.factor))

\* C2: for every finite factor every channel adjust_channel and adjust_color
\* return lies in 0..255, is 0 when f <= -1 and is 255 when
\* v * (1 + f) >= 255.
C2_AdjustedChannelsClamped ==
    AdjustReturned =>
        /\ ret.raised = "none"
        /\ Len(Channels(ret.val)) = Len(Channels(input.color))
        /\ \A j \in 1..Len(Channels(input.color)) :
              LET v == Channels(input.color)[j]
                  out == Channels(ret.val)[j]
              IN  /\ 0 <= out /\ out <= MaxChannel
                  /\ FactorAtMostMinusOne(input.factor) => out = 0
                  /\ ScaledSaturates(v, input.factor) => out = MaxChannel

StripSign(s) == IF s # <<>> /\ Head(s) = "-" THEN Tail(s) ELSE s

Signed(s, n) == IF s # <<>> /\ Head(s) = "-" THEN -n ELSE n

IsDecimalText(s) == AllDigits(StripSign(s), 10)

IsHexText(s) ==
    LET body == StripSign(s)
    IN  Len(body) >= 3 /\ body[1] = "0" /\ body[2] = "x"
        /\ AllDigits(SubSeq(body, 3, Len(body)), 16)

DecimalValue(s) == Signed(s, DigitsValue(StripSign(s), 10, 0))

HexValue(s) == Signed(s, DigitsValue(SubSeq(StripSign(s), 3, Len(StripSign(s))), 16, 0))

\* the color the specification gives a string: three decimal tokens in
\* 0..255, or one decimal or 0x-hexadecimal integer in 0..255
SpecifiedColor(s) ==
    IF \E j \in 1..Len(s) : s[j] = ","
    THEN LET tokens == Split(s, <<>>)
         IN  IF /\ Len(tokens) = 3
                /\ \A j \in 1..3 : IsDecimalText(tokens[j]) /\ InByteRange(DecimalValue(tokens[j]))
             THEN Returned([shape |-> "tuple", v |-> [j \in 1..3 |-> DecimalValue(tokens[j])]])
             ELSE Raised("ValueError")
    ELSE IF IsDecimalText(s) /\ InByteRange(DecimalValue(s))
         THEN Returned([shape |-> "int", v |-> DecimalValue(s)])
    ELSE IF IsHexText(s) /\ InByteRange(HexValue(s))
         THEN Returned([shape |-> "int", v |-> HexValue(s)])
    ELSE Raised("ValueError")

ColorParsed == prog = "adjust-color.py" /\ pc \in {"adjust", "output"}

ColorRejected ==
    prog = "adjust-color.py" /\ pc = "exit" /\ stdout = << <<ErrorMessage>> >>

\* C3: parse_color returns the triple of three integer tokens in 0..255, or
\* the single decimal or 0x-hexadecimal integer in 0..255, and fails with
\* ValueError on every other string.
C3_ParseColorAcceptsExactlySpecified ==
    /\ ColorParsed =>
          /\ SpecifiedColor(input.color).raised = "none"
          /\ SpecifiedColor(input.color).val.shape = color.shape
          /\ SpecifiedColor(input.color).val.v = color.v
    /\ ColorRejected => SpecifiedColor(input.color).raised = "ValueError"

\* a run of the Brightness Adjuster that got past the argument parser ended
AdjusterEnded == prog = "adjust-color.py" /\ pc = "exit" /\ status # 2

\* C4: a ValueError of parse_color is caught in main: the run prints the
\* error message and nothing else, adjusts nothing and ends with the exit
\* status of a successful run; a run whose color parses prints exactly two
\* lines, the original then the adjusted, as a formatted channel or as an
\* rgb(...) triple.
C4_MainPrintsErrorOrTwoLines ==
    AdjusterEnded =>
        IF parse_color(input.color).raised # "none"
        THEN /\ stdout = << <<ErrorMessage>> >>
             /\ adjusted_color = None
             /\ raised = "none"
             /\ status = 0
        ELSE /\ status = 0
             /\ raised = "none"
             /\ Len(stdout) = 2
             /\ IF color.shape = "int"
                THEN /\ stdout[1] = <<"Original channel: ">> \o format_color(color.v)
                     /\ stdout[2] = <<"Adjusted channel: ">> \o format_color(adjusted_color.v)
                ELSE /\ stdout[1][1] = "Original color: rgb("
                     /\ stdout[2][1] = "Adjusted color: rgb("
                     /\ stdout[1][Len(stdout[1])] = ")"
                     /\ stdout[2][Len(stdout[2])] = ")"

\* start + (end - start) * (pos - start_pos) / (end_pos - start_pos) with the
\* fractional part discarded, start_pos < end_pos
ExactInterpolation(start, end, start_pos, end_pos, pos) ==
    TruncDiv(start * (end_pos - start_pos) + (end - start) * (pos - start_pos),
             end_pos - start_pos)

InterpolateReturned ==
    prog = "interpolate_color" /\ pc = "returned" /\ input.start_pos < input.end_pos

\* C5: for start_pos < end_pos and start_pos <= pos <= end_pos,
\* interpolate_color returns per channel, in the same order and unclamped,
\* start + (end - start) * (pos - start_pos) / (end_pos - start_pos)
\* truncated toward zero.
C5_InterpolateIsTruncatedLinear ==
    InterpolateReturned =>
        /\ ret.raised = "none"
        /\ Len(ret.val) = 3
        /\ \A j \in 1..3 :
              ret.val[j] = ExactInterpolation(input.start_color[j], input.end_color[j],
                                              input.start_pos, input.end_pos, input.pos)

C5_Witness ==
    /\ InterpolateReturned
    /\ input = [start_color |-> Gray(0), end_color |-> Gray(100),
                start_pos |-> 0, end_pos |-> 10, pos |-> 5]
    /\ ret.val = Gray(50)

ScaleRun == prog = "interpolate-rgb-scale.py"

IsColor(c) == \A j \in 1..Len(c) : InByteRange(c[j])

\* the color the specification gives position p under the key map keys
SpecifiedBackground(keys, p) ==
    IF p \in DOMAIN keys THEN keys[p]
    ELSE LET lo == CHOOSE k \in DOMAIN keys : k < p /\ \A o \in DOMAIN keys : o < p => o <= k
             hi == CHOOSE k \in DOMAIN keys : k > p /\ \A o \in DOMAIN keys : o > p => k <= o
         IN  [j \in 1..3 |-> ExactInterpolation(keys[lo][j], keys[hi][j], lo, hi, p)]

\* C6: the background recorded for a position is the key's own color when
\* the position is a key, and otherwise the interpolation between the
\* nearest key below and the nearest key above; positions 2, 4, 6 and 8 use
\* the keys (1,3), (3,5), (5,7) and (7,9).
C6_BackgroundFromNearestKeys ==
    ScaleRun =>
        /\ \A k \in 1..Len(result) :
              /\ result[k][2] = SpecifiedBackground(colors, result[k][1])
              /\ result[k][1] \in DOMAIN KeyColors => result[k][2] = KeyColors[result[k][1]]
        /\ (pc = "fill" /\ i \in {2, 4, 6, 8}) => bounds = <<i - 1, i + 1>>

C6_Witness ==
    /\ ScaleRun /\ pc = "fill" /\ i = 4
    /\ bounds = <<3, 5>>
    /\ result[4][2] = <<253, 229, 127>>

\* C7: before any position is filled exactly one key is added, at position
\* 5, with the floor-halved channel sums of keys 3 and 7, (251,203,135); the
\* four configured keys keep their colors.
C7_DerivedKeyIsAverage ==
    ScaleRun =>
        /\ pc = "derive" => result = <<>> /\ i = 0
        /\ pc # "derive" =>
              /\ DOMAIN colors = {1, 3, 5, 7, 9}
              /\ colors[5] = <<251, 203, 135>>
              /\ colors[1] = <<176, 238, 176>>
              /\ colors[3] = <<255, 255, 120>>
              /\ colors[7] = <<248, 152, 150>>
              /\ colors[9] = <<124, 76, 75>>

C7_Witness == ScaleRun /\ pc = "fill" /\ i = 0 /\ colors[5] = <<251, 203, 135>>

\* C8: the run prints one line per position 1..9, in ascending order without
\* gap or repetition, and all records exist before the first line is printed.
C8_OneLinePerPositionInOrder ==
    ScaleRun =>
        /\ \A k \in 1..Len(result) : result[k][1] = k
        /\ Len(result) <= 9
        /\ stdout # <<>> => Len(result) = 9
        /\ pc \in {"print", "exit"} => Len(result) = 9
        /\ \A k \in 1..Len(stdout) :
              stdout[k] = RuleLine(k, result[k][2], result[k][3])
        /\ pc = "exit" => Len(stdout) = 9 /\ status = 0

C8_Witness == ScaleRun /\ pc = "exit" /\ Len(stdout) = 9

DarkenReturned == prog = "darken_color" /\ pc = "returned"

\* channel * (1 - r) with the fractional part discarded, r a decimal text
ExactDarkened(channel, text) ==
    IF channel >= 0 THEN TruncDiv(channel * (text.den - text.num), text.den)
    ELSE -TruncDiv((-channel) * (text.den - text.num), text.den)

DarkenedIsWhole(channel, text) == (Abs(channel) * (text.den - text.num)) % text.den = 0

\* C9 as stated: darken_color returns per channel truncate(channel * (1 - r))
\* unclamped, and every record's border is darken_color of its background at
\* r = 0.33, between 0 and the background channel.
C9_DarkenIsExactTruncation ==
    /\ DarkenReturned =>
          /\ ret.raised = "none"
          /\ Len(ret.val) = Len(input.color)
          /\ \A j \in 1..Len(input.color) :
                ret.val[j] = ExactDarkened(input.color[j], input.factor)
    /\ ScaleRun =>
          \A k \in 1..Len(result) : \A j \in 1..3 :
              /\ result[k][3][j] = ExactDarkened(result[k][2][j], Dec(33, 100))
              /\ 0 <= result[k][3][j] /\ result[k][3][j] <= result[k][2][j]

\* C9 as amended: the truncation is of the double-precision product; for r
\* in [0,1] it is truncate(channel * (1 - r)), or one nearer to zero when
\* that product is a whole number; at r = 0.33 it is exact for every channel
\* in 0..255 (255 becomes 170); borders as stated.
C9_DarkenIsTruncatedDoubleProduct ==
    /\ DarkenReturned =>
          /\ ret.raised = "none"
          /\ Len(ret.val) = Len(input.color)
          /\ \A j \in 1..Len(input.color) :
                LET exact == ExactDarkened(input.color[j], input.factor)
                    got == ret.val[j]
                IN  /\ \/ got = exact
                       \/ /\ DarkenedIsWhole(input.color[j], input.factor)
                          /\ Abs(got) = Abs(exact) - 1
                          /\ (got < 0) = (exact < -1)
                    /\ (input.factor = Dec(33, 100) /\ InByteRange(input.color[j]))
                          => got = exact
          /\ (input.color = Gray(MaxChannel) /\ input.factor = Dec(33, 100))
                => ret.val = Gray(170)
    /\ ScaleRun =>
          \A k \in 1..Len(result) : \A j \in 1..3 :
              /\ result[k][3][j] = ExactDarkened(result[k][2][j], Dec(33, 100))
              /\ 0 <= result[k][3][j] /\ result[k][3][j] <= result[k][2][j]

C9_Witness ==
    /\ DarkenReturned
    /\ input = [color |-> Gray(10), factor |-> Dec(9, 10)]
    /\ ret.val = Gray(0)

\* C10: for colors with channels in 0..255, start_pos < end_pos and
\* start_pos <= pos <= end_pos every channel interpolate_color returns lies
\* between the start and the end channel, pos = start_pos gives the start
\* color and pos = end_pos the end color; every background channel of the
\* scale lies in 0..255.
C10_InterpolationStaysBetween ==
    /\ (InterpolateReturned /\ IsColor(input.start_color) /\ IsColor(input.end_color)) =>
          /\ ret.raised = "none"
          /\ \A j \in 1..3 :
                /\ Min(input.start_color[j], input.end_color[j]) <= ret.val[j]
                /\ ret.val[j] <= Max(input.start_color[j], input.end_color[j])
                /\ InByteRange(ret.val[j])
          /\ input.pos = input.start_pos => ret.val = input.start_color
          /\ input.pos = input.end_pos => ret.val = input.end_color
    /\ ScaleRun => \A k \in 1..Len(result) : IsColor(result[k][2])

C10_Witness ==
    /\ InterpolateReturned
    /\ input.start_color = <<248, 152, 150>> /\ input.end_color = <<124, 76, 75>>
    /\ input.start_pos = 7 /\ input.end_pos = 9 /\ input.pos = 8
    /\ ret.val = <<186, 114, 112>>

====
